---- MODULE Spec2Model ----
(***************************************************************************)
(* The video comparison pipeline of tester.py: Video.__init__ opens the    *)
(* capture and the two writers and derives the output geometry; Video.run  *)
(* reads, transforms, composes and writes one frame per loop iteration.    *)
(* Images are modelled by their dimensions and the index of the source     *)
(* frame they derive from; pixel content is not modelled.                  *)
(***************************************************************************)
EXTENDS Integers, Sequences, FiniteSets, TLC

\* Bounds of the explored inputs.
MaxFrameWidth == 23
MaxFrameHeight == 2
MaxUpscaleFactor == 4
MaxFrames == 2

VARIABLES
    args,            \* the argparse namespace: upscale_factor, scale_factor, view, file
    source,          \* the video file behind cv2.VideoCapture(args.file)
    model_scale,     \* the factor the network returned by configure(args) scales by
    state,           \* INIT, RUNNING, DONE, CANCELLED, FAILED
    pc,              \* the statement of Video.run about to execute
    error,           \* the exception that left the run, "none" if none
    video_capture,   \* [opened, pos]: the capture and its read position
    total_frames,    \* self.total_frames
    size,            \* self.size
    sr_size,         \* self.sr_size
    pare_size,       \* self.pare_size
    sr_writer,       \* self.sr_writer: [name, fourcc, fps, size, frames]
    compare_writer,  \* self.compare_writer
    released,        \* release() calls made on each of the three resources
    i,               \* iterations of the for loop started so far
    success,         \* result flag of the last video_capture.read()
    raw_frame,       \* frame of the last video_capture.read()
    sr,              \* output of the network for raw_frame
    final_image,     \* the composed comparison frame
    transform_calls, \* calls of model(lr) made so far
    polls,           \* calls of cv2.waitKey made so far
    dropped,         \* writes a writer discarded without raising
    write_calls,     \* calls of write that returned, per writer
    composed         \* the strips of the last comparison frame composed

vars == <<args, source, model_scale, state, pc, error, video_capture, total_frames,
          size, sr_size, pare_size, sr_writer, compare_writer, released, i, success,
          raw_frame, sr, final_image, transform_calls, polls, dropped, write_calls,
          composed>>

Factors == 1..MaxUpscaleFactor

NoFrame == [w |-> 0, h |-> 0, src |-> 0]

Resources == {"video_capture", "sr_writer", "compare_writer"}

----------------------------------------------------------------------------
\* Geometry of Video.__init__.

\* The mutant of SrSize: the height is scaled from the width.
SrSizeWidthTwice(sz, upscale_factor) ==
    <<sz[1] * upscale_factor, sz[1] * upscale_factor>>

SrSize(sz, upscale_factor) ==
    <<sz[1] * upscale_factor, sz[2] * upscale_factor>>

\* The mutant of PareSize: the crop height is rounded up instead of down.
PareSizeCeil(srsz) ==
    <<srsz[1] * 2 + 10, srsz[2] + 10 + ((srsz[1] + 4) \div 5) - 9>>

PareSize(srsz) ==
    <<srsz[1] * 2 + 10, srsz[2] + 10 + (srsz[1] \div 5) - 9>>

FourCC == "MPEG"

WriterName(prefix, scale_factor, file) == <<prefix, scale_factor, "x", file>>

VideoWriter(name, fourcc, fps, sz) ==
    [name |-> name, fourcc |-> fourcc, fps |-> fps, size |-> sz, frames |-> <<>>]

NoWriter == VideoWriter(<<>>, "", 0, <<0, 0>>)

----------------------------------------------------------------------------
\* The image operations Video.run composes, on dimensions.

Image(w, h) == [w |-> w, h |-> h]

\* The mutant of Pad: the bottom margin is left out.
PadNoBottom(img, padding) ==
    Image(img.w + padding[1] + padding[3], img.h + padding[2])

\* transforms.Pad(padding=(left, top, right, bottom))
Pad(img, padding) ==
    Image(img.w + padding[1] + padding[3], img.h + padding[2] + padding[4])

\* The mutant of SrPadding: the padding of the crops is used for the frame.
SrPaddingOfCrops == <<10, 5, 0, 0>>

SrPadding == <<5, 0, 0, 5>>
ComparePadding == <<0, 0, 5, 5>>
CropSrPadding == <<10, 5, 0, 0>>
\* The mutant of CropComparePadding: the margin is put on the left.
CropComparePaddingLeft == <<10, 5, 0, 0>>

CropComparePadding == <<0, 5, 10, 0>>

\* The mutant of FiveCropSize: a smaller inset.
FiveCropSizeLessInset(width) == (width \div 5) - 8

\* The size handed to transforms.FiveCrop: width // 5 - 9 (floor division).
FiveCropSize(width) == (width \div 5) - 9

\* FiveCrop raises ValueError when the crop is larger than the image; for a
\* negative size the outcome depends on the installed Pillow (lib): it either
\* raises or yields empty tiles.
FiveCropRaises(img, s, lib) ==
    \/ s > img.w
    \/ s > img.h
    \/ (s < 0 /\ lib = "raise")

\* The five tiles (four corners and centre), each s x s; a non-positive size
\* yields empty tiles.
FiveCrop(img, s) ==
    LET side == IF s < 0 THEN 0 ELSE s
    IN  [k \in 1..5 |-> Image(side, side)]

PadAll(imgs, padding) == [k \in DOMAIN imgs |-> Pad(imgs[k], padding)]

RECURSIVE SumW(_)
SumW(imgs) == IF imgs = <<>> THEN 0 ELSE Head(imgs).w + SumW(Tail(imgs))

RECURSIVE SumH(_)
SumH(imgs) == IF imgs = <<>> THEN 0 ELSE Head(imgs).h + SumH(Tail(imgs))

\* np.concatenate(imgs, axis=1) raises unless all heights agree.
ConcatAxis1Raises(imgs) == \E a, b \in DOMAIN imgs : imgs[a].h # imgs[b].h
ConcatAxis1(imgs) == Image(SumW(imgs), imgs[1].h)

\* np.concatenate(imgs) (axis 0) raises unless all widths agree.
ConcatAxis0Raises(imgs) == \E a, b \in DOMAIN imgs : imgs[a].w # imgs[b].w
ConcatAxis0(imgs) == Image(imgs[1].w, SumH(imgs))

\* The mutant of BottomImgHeight: round() in place of int().
BottomImgHeightNearest(top, bottom) ==
    (2 * top.w * bottom.h + bottom.w) \div (2 * bottom.w)

\* int(top_w / bottom_w * bottom_h): the three operands are non-negative and
\* bottom_w is at least 100, so int() truncates downwards; the float product
\* agrees with the exact floor for every width up to 5000 (checked numerically).
BottomImgHeight(top, bottom) == (top.w * bottom.h) \div bottom.w

\* transforms.Resize((h, w)) raises for a non-positive target.
ResizeRaises(h, w) == h <= 0 \/ w <= 0
Resize(h, w) == Image(w, h)

\* One image placed in a strip: which image, the padding it got, its padded size.
Part(of, padding, img) == [of |-> of, padding |-> padding, size |-> Pad(img, padding)]

Parts(of, padding, imgs) == [k \in DOMAIN imgs |-> Part(of, padding, imgs[k])]

\* What is kept of one composition: the images the two FiveCrops were applied
\* to, the parts of the two strips in their left-to-right order, the strips.
NoComposition ==
    [crop_from |-> [sr |-> Image(0, 0), compare_img |-> Image(0, 0)],
     top_parts |-> <<>>, bottom_parts |-> <<>>,
     top |-> Image(0, 0), bottom_unresized |-> Image(0, 0), bottom |-> Image(0, 0)]

Failure(e) ==
    [error |-> e, top |-> Image(0, 0), bottom |-> Image(0, 0), final |-> Image(0, 0),
     composition |-> NoComposition]

\* Lines 161-184 of Video.run: from the raw frame and the network's output to
\* the comparison frame, or the exception raised on the way.
Compose(raw, srimg, srsz, lib) ==
    LET sr_pil == Image(srimg.w, srimg.h)
        s_sr == FiveCropSize(sr_pil.w)
        crop_sr_imgs == PadAll(FiveCrop(sr_pil, s_sr), CropSrPadding)
        sr_pad == Pad(sr_pil, SrPadding)
        compare_img == Resize(srsz[2], srsz[1])
        s_cmp == FiveCropSize(compare_img.w)
        crop_compare_imgs == PadAll(FiveCrop(compare_img, s_cmp), CropComparePadding)
        compare_pad == Pad(compare_img, ComparePadding)
        top_img == ConcatAxis1(<<compare_pad, sr_pad>>)
        bottom_img == ConcatAxis1(crop_compare_imgs \o crop_sr_imgs)
        bottom_img_height == BottomImgHeight(top_img, bottom_img)
        bottom_img_width == top_img.w
        bottom_resized == Resize(bottom_img_height, bottom_img_width)
    IN  IF FiveCropRaises(sr_pil, s_sr, lib) THEN Failure("ValueError")
        ELSE IF ResizeRaises(srsz[2], srsz[1]) THEN Failure("ValueError")
        ELSE IF FiveCropRaises(compare_img, s_cmp, lib) THEN Failure("ValueError")
        ELSE IF ConcatAxis1Raises(<<compare_pad, sr_pad>>) THEN Failure("ValueError")
        ELSE IF ConcatAxis1Raises(crop_compare_imgs \o crop_sr_imgs)
             THEN Failure("ValueError")
        ELSE IF ResizeRaises(bottom_img_height, bottom_img_width)
             THEN Failure("ValueError")
        ELSE IF ConcatAxis0Raises(<<top_img, bottom_resized>>) THEN Failure("ValueError")
        ELSE [error |-> "none", top |-> top_img, bottom |-> bottom_resized,
              final |-> ConcatAxis0(<<top_img, bottom_resized>>),
              composition |->
                 [crop_from |-> [sr |-> sr_pil, compare_img |-> compare_img],
                  top_parts |-> <<Part("compare_img", ComparePadding, compare_img),
                                  Part("sr", SrPadding, sr_pil)>>,
                  bottom_parts |->
                     Parts("compare_img", CropComparePadding, FiveCrop(compare_img, s_cmp))
                     \o Parts("sr", CropSrPadding, FiveCrop(sr_pil, s_sr)),
                  top |-> top_img, bottom_unresized |-> bottom_img,
                  bottom |-> bottom_resized]]

\* cv2.VideoWriter.write appends a frame of the writer's size.
Matches(writer, frame) == frame.w = writer.size[1] /\ frame.h = writer.size[2]

----------------------------------------------------------------------------
\* The inputs of a run.

\* What cv2.VideoCapture(args.file) finds: a file it cannot decode reports 0
\* for every property and yields no frame.
Sources ==
    {[opened |-> TRUE, fps |-> 25, frame_count |-> c, frames |-> n, width |-> w, height |-> h] :
        c \in 0..MaxFrames, n \in 0..MaxFrames, w \in 1..MaxFrameWidth, h \in 1..MaxFrameHeight}
    \cup {[opened |-> FALSE, fps |-> 0, frame_count |-> 0, frames |-> 0, width |-> 0, height |-> 0]}

\* args.scale_factor only names the output files: it is either the upscale
\* factor or another factor.
Args ==
    {[upscale_factor |-> u, scale_factor |-> IF same THEN u ELSE (u % MaxUpscaleFactor) + 1, view |-> v, file |-> "video.mp4"] :
        u \in Factors, same \in BOOLEAN, v \in BOOLEAN}

Init ==
    /\ args \in Args
    /\ source \in Sources
    /\ model_scale \in Factors
    /\ state = "INIT"
    /\ pc = "__init__"
    /\ error = "none"
    /\ video_capture = [opened |-> FALSE, pos |-> 0]
    /\ total_frames = 0
    /\ size = <<0, 0>>
    /\ sr_size = <<0, 0>>
    /\ pare_size = <<0, 0>>
    /\ sr_writer = NoWriter
    /\ compare_writer = NoWriter
    /\ released = [r \in Resources |-> 0]
    /\ i = 0
    /\ success = FALSE
    /\ raw_frame = NoFrame
    /\ sr = NoFrame
    /\ final_image = NoFrame
    /\ transform_calls = 0
    /\ polls = 0
    /\ dropped = 0
    /\ write_calls = [sr_writer |-> 0, compare_writer |-> 0]
    /\ composed = NoComposition

----------------------------------------------------------------------------
\* Video.__init__ (lines 81-124): no statement of it checks the capture, the
\* frame count or the geometry, and none raises.
VideoInit ==
    /\ state = "INIT"
    /\ video_capture' = [opened |-> source.opened, pos |-> 0]
    /\ total_frames' = source.frame_count
    /\ size' = <<source.width, source.height>>
    /\ sr_size' = SrSize(size', args.upscale_factor)
    /\ pare_size' = PareSize(sr_size')
    /\ sr_writer' = VideoWriter(WriterName("sr", args.scale_factor, args.file),
                                FourCC, source.fps, sr_size')
    /\ compare_writer' = VideoWriter(WriterName("compare", args.scale_factor, args.file),
                                     FourCC, source.fps, pare_size')
    /\ state' = "RUNNING"
    /\ pc' = "read_first"
    /\ UNCHANGED <<args, source, model_scale, error, released, i, success, raw_frame,
                   sr, final_image, transform_calls, polls, dropped, write_calls,
                   composed>>

\* The mutant of Read: the read position does not advance.
ReadSameFrame(next_pc) ==
    /\ IF video_capture.opened /\ video_capture.pos < source.frames
       THEN /\ success' = TRUE
            /\ raw_frame' = [w |-> source.width, h |-> source.height,
                             src |-> video_capture.pos + 1]
            /\ UNCHANGED video_capture
       ELSE /\ success' = FALSE
            /\ raw_frame' = NoFrame
            /\ UNCHANGED video_capture
    /\ pc' = next_pc

\* video_capture.read(): the next frame of the file, or (False, None).
Read(next_pc) ==
    /\ IF video_capture.opened /\ video_capture.pos < source.frames
       THEN /\ success' = TRUE
            /\ raw_frame' = [w |-> source.width, h |-> source.height,
                             src |-> video_capture.pos + 1]
            /\ video_capture' = [video_capture EXCEPT !.pos = @ + 1]
       ELSE /\ success' = FALSE
            /\ raw_frame' = NoFrame
            /\ UNCHANGED video_capture
    /\ pc' = next_pc

\* An exception leaves run(): nothing catches it and nothing is released.
Raise(e) ==
    /\ state' = "FAILED"
    /\ error' = e
    /\ pc' = "raised"

\* Line 143.
ReadFirst ==
    /\ state = "RUNNING" /\ pc = "read_first"
    /\ Read("for")
    /\ UNCHANGED <<args, source, model_scale, state, error, total_frames, size, sr_size,
                   pare_size, sr_writer, compare_writer, released, i, sr, final_image,
                   transform_calls, polls, dropped, write_calls, composed>>

\* The mutant of LoopBound: one iteration more.
LoopBoundLong(n) == n + 1

\* The mutant of LoopBound: one iteration fewer.
LoopBoundShort(n) == n - 1

\* range(total_frames)
LoopBound(n) == n

\* Lines 145-146: the next iteration of the for loop, whose body is skipped
\* when the last read failed; the loop's end returns from run().
ForLoop ==
    /\ state = "RUNNING" /\ pc = "for"
    /\ IF i < LoopBound(total_frames)
       THEN /\ i' = i + 1
            /\ pc' = IF success THEN "transform" ELSE "for"
            /\ UNCHANGED state
       ELSE /\ state' = "DONE"
            /\ pc' = "returned"
            /\ UNCHANGED i
    /\ UNCHANGED <<args, source, model_scale, error, video_capture, total_frames, size,
                   sr_size, pare_size, sr_writer, compare_writer, released, success,
                   raw_frame, sr, final_image, transform_calls, polls, dropped,
                   write_calls, composed>>

\* Lines 147-156: the network scales the frame by the factor it was built for,
\* or raises.
Transform ==
    /\ state = "RUNNING" /\ pc = "transform"
    /\ transform_calls' = transform_calls + 1
    /\ \/ /\ sr' = [w |-> raw_frame.w * model_scale, h |-> raw_frame.h * model_scale,
                    src |-> raw_frame.src]
          /\ pc' = "write_sr"
          /\ UNCHANGED <<state, error>>
       \/ /\ Raise("TransformError")
          /\ UNCHANGED sr
    /\ UNCHANGED <<args, source, model_scale, video_capture, total_frames, size, sr_size,
                   pare_size, sr_writer, compare_writer, released, i, success, raw_frame,
                   final_image, polls, dropped, write_calls, composed>>

\* Line 158: sr_writer.write(sr). A frame of another size than the writer's is
\* not appended: depending on the backend OpenCV was built with, write either
\* returns without writing or raises cv2.error.
WriteSr ==
    /\ state = "RUNNING" /\ pc = "write_sr"
    /\ IF Matches(sr_writer, sr)
       THEN /\ sr_writer' = [sr_writer EXCEPT !.frames = Append(@, sr)]
            /\ write_calls' = [write_calls EXCEPT !.sr_writer = @ + 1]
            /\ pc' = "compose"
            /\ UNCHANGED <<state, error, dropped>>
       ELSE \/ /\ dropped' = dropped + 1
               /\ write_calls' = [write_calls EXCEPT !.sr_writer = @ + 1]
               /\ pc' = "compose"
               /\ UNCHANGED <<state, error, sr_writer>>
            \/ /\ Raise("cv2.error")
               /\ UNCHANGED <<sr_writer, dropped, write_calls>>
    /\ UNCHANGED <<args, source, model_scale, video_capture, total_frames, size, sr_size,
                   pare_size, compare_writer, released, i, success, raw_frame, sr,
                   final_image, transform_calls, polls, composed>>

\* Lines 161-184: the comparison frame, or the ValueError of a crop, resize or
\* concatenation.
ComposeFrame ==
    /\ state = "RUNNING" /\ pc = "compose"
    /\ \E lib \in {"raise", "empty"} :
          LET r == Compose(raw_frame, sr, sr_size, lib)
          IN  IF r.error = "none"
              THEN /\ final_image' = [w |-> r.final.w, h |-> r.final.h, src |-> raw_frame.src]
                   /\ composed' = r.composition
                   /\ pc' = "write_compare"
                   /\ UNCHANGED <<state, error>>
              ELSE /\ Raise(r.error)
                   /\ UNCHANGED <<final_image, composed>>
    /\ UNCHANGED <<args, source, model_scale, video_capture, total_frames, size, sr_size,
                   pare_size, sr_writer, compare_writer, released, i, success, raw_frame,
                   sr, transform_calls, polls, dropped, write_calls>>

\* Line 187: compare_writer.write(final_image).
WriteCompare ==
    /\ state = "RUNNING" /\ pc = "write_compare"
    /\ IF Matches(compare_writer, final_image)
       THEN /\ compare_writer' = [compare_writer EXCEPT !.frames = Append(@, final_image)]
            /\ write_calls' = [write_calls EXCEPT !.compare_writer = @ + 1]
            /\ pc' = "view"
            /\ UNCHANGED <<state, error, dropped>>
       ELSE \/ /\ dropped' = dropped + 1
               /\ write_calls' = [write_calls EXCEPT !.compare_writer = @ + 1]
               /\ pc' = "view"
               /\ UNCHANGED <<state, error, compare_writer>>
            \/ /\ Raise("cv2.error")
               /\ UNCHANGED <<compare_writer, dropped, write_calls>>
    /\ UNCHANGED <<args, source, model_scale, video_capture, total_frames, size, sr_size,
                   pare_size, sr_writer, released, i, success, raw_frame, sr, final_image,
                   transform_calls, polls, composed>>

\* The mutant of View: the keyboard is polled whether or not args.view is set.
ViewPollsAlways ==
    /\ state = "RUNNING" /\ pc = "view"
    /\ polls' = polls + 1
    /\ \E key \in {"q", "none"} :
          IF key = "q"
          THEN state' = "CANCELLED" /\ pc' = "returned"
          ELSE state' = state /\ pc' = "read_next"
    /\ UNCHANGED <<args, source, model_scale, error, video_capture, total_frames, size,
                   sr_size, pare_size, sr_writer, compare_writer, released, i, success,
                   raw_frame, sr, final_image, transform_calls, dropped, write_calls,
                   composed>>

\* Lines 189-193: with args.view the frame is shown and the keyboard polled
\* once; the key q breaks out of the loop, which returns from run().
View ==
    /\ state = "RUNNING" /\ pc = "view"
    /\ IF args.view
       THEN /\ polls' = polls + 1
            /\ \E key \in {"q", "none"} :
                  IF key = "q"
                  THEN state' = "CANCELLED" /\ pc' = "returned"
                  ELSE state' = state /\ pc' = "read_next"
       ELSE /\ pc' = "read_next"
            /\ UNCHANGED <<state, polls>>
    /\ UNCHANGED <<args, source, model_scale, error, video_capture, total_frames, size,
                   sr_size, pare_size, sr_writer, compare_writer, released, i, success,
                   raw_frame, sr, final_image, transform_calls, dropped, write_calls,
                   composed>>

\* Line 196.
ReadNext ==
    /\ state = "RUNNING" /\ pc = "read_next"
    /\ Read("for")
    /\ UNCHANGED <<args, source, model_scale, state, error, total_frames, size, sr_size,
                   pare_size, sr_writer, compare_writer, released, i, sr, final_image,
                   transform_calls, polls, dropped, write_calls, composed>>

Next ==
    \/ VideoInit
    \/ ReadFirst
    \/ ForLoop
    \/ Transform
    \/ WriteSr
    \/ ComposeFrame
    \/ WriteCompare
    \/ View
    \/ ReadNext

Spec == Init /\ [][Next]_vars

Terminal == state \in {"DONE", "CANCELLED", "FAILED"}

----------------------------------------------------------------------------
\* The quantities the properties speak of, taken from the inputs.

SrWidth == source.width * args.upscale_factor
SrHeight == source.height * args.upscale_factor
CropTileSize == (SrWidth \div 5) - 9
SrFrames == sr_writer.frames
CompareFrames == compare_writer.frames
HasSize(frame, sz) == frame.w = sz[1] /\ frame.h = sz[2]

\* C1: a run over a source of N frames (the count the file reports and the
\* frames it yields are both N) that ends without cancellation, exception or
\* discarded write is DONE with exactly N frames of srSize in the upscaled sink
\* and exactly N frames of compareSize in the comparison sink.
C1_FullRunWritesEveryFrame ==
    (Terminal /\ state # "CANCELLED" /\ error = "none" /\ dropped = 0
        /\ source.frame_count = source.frames)
    => /\ state = "DONE"
       /\ Len(SrFrames) = source.frames
       /\ Len(CompareFrames) = source.frames
       /\ \A k \in DOMAIN SrFrames : HasSize(SrFrames[k], <<SrWidth, SrHeight>>)
       /\ \A k \in DOMAIN CompareFrames : HasSize(CompareFrames[k], pare_size)

C1_Witness ==
    /\ state = "DONE" /\ error = "none" /\ dropped = 0
    /\ source.frame_count = MaxFrames /\ source.frames = MaxFrames
    /\ Len(SrFrames) = MaxFrames /\ Len(CompareFrames) = MaxFrames

\* C2: when cropTileSize > 0, every comparison frame the compositing steps
\* produce has exactly the size compareSize, and every frame in the upscaled
\* sink (and, for a network built for the upscale factor, every frame handed to
\* it) has exactly the size srSize.
C2_ProducedFrameSizes ==
    CropTileSize > 0 =>
       /\ final_image # NoFrame => HasSize(final_image, pare_size)
       /\ \A k \in DOMAIN CompareFrames : HasSize(CompareFrames[k], pare_size)
       /\ \A k \in DOMAIN SrFrames : HasSize(SrFrames[k], sr_size)
       /\ (sr # NoFrame /\ model_scale = args.upscale_factor) => HasSize(sr, sr_size)

C2_Witness ==
    /\ CropTileSize > 0
    /\ sr_size[1] % 5 # 0
    /\ Len(SrFrames) > 0
    /\ Len(CompareFrames) > 0
    /\ HasSize(CompareFrames[1], pare_size)

\* C3: a run cancelled after frame k was fully written ends with exactly k
\* frames in each sink, both writers released (files finalized), and no error.
C3_CancelKeepsWholeFramesAndFinalizes ==
    (state = "CANCELLED" /\ dropped = 0)
    => /\ Len(SrFrames) = video_capture.pos
       /\ Len(CompareFrames) = video_capture.pos
       /\ released["sr_writer"] = 1
       /\ released["compare_writer"] = 1
       /\ error = "none"

\* C4: in every terminal state the capture and both writers have each been
\* released exactly once.
C4_ReleasedExactlyOnce ==
    Terminal => \A r \in Resources : released[r] = 1

\* C5: a source whose srSize.width is below 45 never gets past INIT except to
\* FAILED, and no comparison frame is emitted for it.
C5_NarrowSourceFailsAtInit ==
    SrWidth < 45 =>
       /\ state \in {"INIT", "FAILED"}
       /\ CompareFrames = <<>>
       /\ final_image = NoFrame

\* C6: when cropTileSize <= 0 the run fails before any frame is processed: no
\* frame is read, transformed or written to either sink.
C6_BadGeometryFailsBeforeAnyFrame ==
    CropTileSize <= 0 =>
       /\ video_capture.pos = 0
       /\ transform_calls = 0
       /\ SrFrames = <<>>
       /\ CompareFrames = <<>>
       /\ Terminal => state = "FAILED"

\* C7: a source that cannot be decoded or reports zero frames takes the run
\* from INIT to FAILED, never to RUNNING or DONE, with nothing left unreleased.
C7_UnreadableSourceFailsAtOpen ==
    (~source.opened \/ source.frame_count = 0) =>
       /\ state \in {"INIT", "FAILED"}
       /\ state = "FAILED" => \A r \in Resources : released[r] >= 1

\* C8: after the transform fails on frame k+1 the run is FAILED with both sinks
\* closed, each holding exactly the k frames written before, and the transform
\* has been called k+1 times in all.
C8_TransformFailureClosesSinks ==
    (error = "TransformError" /\ dropped = 0)
    => /\ state = "FAILED"
       /\ Len(SrFrames) = transform_calls - 1
       /\ Len(CompareFrames) = transform_calls - 1
       /\ released["sr_writer"] = 1
       /\ released["compare_writer"] = 1

\* C9: a write of a frame whose size differs from the writer's is fatal: the
\* run becomes FAILED, and the frame is neither appended nor discarded silently.
C9_MismatchedWriteIsFatal ==
    [][(\/ (pc = "write_sr" /\ ~Matches(sr_writer, sr))
        \/ (pc = "write_compare" /\ ~Matches(compare_writer, final_image)))
       => (/\ state' = "FAILED"
           /\ dropped' = dropped
           /\ sr_writer' = sr_writer
           /\ compare_writer' = compare_writer)]_vars

\* C10: the srSize computed by Video.__init__ is (frameWidth x upscaleFactor,
\* frameHeight x upscaleFactor); 64, 64, 4 gives (256, 256).
C10_SrSizeIsScaledFrameSize ==
    /\ state # "INIT" =>
          /\ sr_size[1] = source.width * args.upscale_factor
          /\ sr_size[2] = source.height * args.upscale_factor
    /\ SrSize(<<64, 64>>, 4) = <<256, 256>>

C10_Witness ==
    /\ state # "INIT"
    /\ source.width # source.height
    /\ args.upscale_factor > 1
    /\ sr_size = <<source.width * args.upscale_factor, source.height * args.upscale_factor>>

\* C11: the compareSize computed by Video.__init__ has width
\* srSize.width x 2 + 10 and height srSize.height + 10 + (srSize.width div 5 - 9)
\* with floor division; srSize (256, 256) gives cropTileSize 42 and compareSize
\* (522, 308).
C11_CompareSizeFormula ==
    /\ state # "INIT" =>
          /\ pare_size[1] = sr_size[1] * 2 + 10
          /\ \E q \in 0..sr_size[1] :
                /\ 5 * q <= sr_size[1]
                /\ sr_size[1] < 5 * (q + 1)
                /\ pare_size[2] = sr_size[2] + 10 + (q - 9)
    /\ FiveCropSize(256) = 42
    /\ PareSize(<<256, 256>>) = <<522, 308>>

C11_Witness ==
    /\ state # "INIT"
    /\ sr_size[1] % 5 # 0
    /\ sr_size[1] > 50
    /\ pare_size[2] = sr_size[2] + 10 + (sr_size[1] \div 5) - 9

\* What a run that returns normally leaves in the sinks, computed from the
\* source, the upscale factor and the network alone.
FramesToProcess ==
    IF source.frame_count < source.frames THEN source.frame_count ELSE source.frames

OutputOfSr(k) ==
    [w |-> source.width * model_scale, h |-> source.height * model_scale, src |-> k]

OutputOfCompare(k) ==
    LET srsz == <<source.width * args.upscale_factor, source.height * args.upscale_factor>>
        r == Compose([w |-> source.width, h |-> source.height, src |-> k],
                     OutputOfSr(k), srsz, "empty")
    IN  [w |-> r.final.w, h |-> r.final.h, src |-> k]

ExpectedSrFrames ==
    IF model_scale = args.upscale_factor
    THEN [k \in 1..FramesToProcess |-> OutputOfSr(k)]
    ELSE <<>>

ExpectedCompareFrames ==
    IF FramesToProcess > 0
       /\ HasSize(OutputOfCompare(1), <<SrWidth * 2 + 10, SrHeight + 10 + CropTileSize>>)
    THEN [k \in 1..FramesToProcess |-> OutputOfCompare(k)]
    ELSE <<>>

IsPrefix(a, b) == Len(a) <= Len(b) /\ \A k \in 1..Len(a) : a[k] = b[k]

\* C12: the frame sequences in the two sinks are determined by the source
\* frames, the upscale factor and the (deterministic) transform: at every moment
\* each sink holds a prefix of one fixed sequence, and a run that returns
\* without cancellation holds all of it, so any two such runs on the same
\* inputs leave the same frames, in the same number and order, in both sinks.
C12_OutputIsAFunctionOfTheInputs ==
    /\ IsPrefix(SrFrames, ExpectedSrFrames)
    /\ IsPrefix(CompareFrames, ExpectedCompareFrames)
    /\ state = "DONE" =>
          /\ SrFrames = ExpectedSrFrames
          /\ CompareFrames = ExpectedCompareFrames

C12_Witness ==
    /\ state = "DONE"
    /\ Len(SrFrames) = MaxFrames
    /\ Len(CompareFrames) = MaxFrames
    /\ SrFrames[MaxFrames].src = MaxFrames
    /\ CompareFrames[MaxFrames].src = MaxFrames

\* C13: the upscaled sink is opened as sr_{upscaleFactor}x_{baseName} with
\* frame size srSize and the comparison sink as compare_{upscaleFactor}x_{baseName}
\* with frame size compareSize, both with the source's frame rate and the MPEG
\* codec tag; the factor in the names is the factor srSize was computed with.
C13_SinksNamedByTheUpscaleFactor ==
    state # "INIT" =>
       /\ sr_writer.name = <<"sr", args.upscale_factor, "x", args.file>>
       /\ compare_writer.name = <<"compare", args.upscale_factor, "x", args.file>>
       /\ sr_writer.size = sr_size
       /\ compare_writer.size = pare_size
       /\ sr_writer.fps = source.fps
       /\ compare_writer.fps = source.fps
       /\ sr_writer.fourcc = "MPEG"
       /\ compare_writer.fourcc = "MPEG"

Holds(frames, k) == \E j \in DOMAIN frames : frames[j].src = k

\* C14: the states follow INIT -> RUNNING -> {DONE, CANCELLED, FAILED};
\* CANCELLED is entered only from RUNNING and only after the current frame has
\* been written to both sinks, so that on cancellation every frame is in both
\* sinks or in neither.
C14_CancelledOnlyAfterAWholeFrame ==
    [][/\ state = "INIT" => state' \in {"INIT", "RUNNING", "FAILED"}
       /\ Terminal => state' = state
       /\ (state # "CANCELLED" /\ state' = "CANCELLED") =>
             /\ state = "RUNNING"
             /\ Holds(SrFrames, raw_frame.src)
             /\ Holds(CompareFrames, raw_frame.src)
             /\ \A k \in 1..video_capture.pos :
                   Holds(SrFrames, k) <=> Holds(CompareFrames, k)]_vars

\* C15: within an iteration the steps run read, transform, compose, write to
\* the upscaled sink, write to the comparison sink, then display and poll: while
\* the compositor has not completed for a frame, neither sink has been written
\* for it, and the upscaled sink is written before the comparison sink.
C15_ComposedBeforeEitherWrite ==
    /\ pc \in {"transform", "write_sr", "compose"} =>
          /\ write_calls.sr_writer < raw_frame.src
          /\ write_calls.compare_writer < raw_frame.src
    /\ pc = "write_compare" => final_image.src = raw_frame.src
    /\ write_calls.compare_writer <= write_calls.sr_writer

\* C16: an uncancelled, failure-free run reaches DONE when and only when a read
\* has reported end-of-stream: in DONE the last read failed and the source has
\* no unread frame left.
C16_DoneOnlyAtEndOfStream ==
    state = "DONE" =>
       /\ ~success
       /\ video_capture.pos = source.frames

\* C17: the keyboard is polled once per frame, after the writes of that frame
\* to both sinks have returned and never between its read and its second write,
\* and only when args.view is set: a run without it never ends CANCELLED.
C17_PolledOncePerWrittenFrame ==
    /\ ~args.view => (polls = 0 /\ state # "CANCELLED")
    /\ args.view =>
          polls = write_calls.compare_writer - (IF pc = "view" THEN 1 ELSE 0)
    /\ pc \in {"transform", "write_sr", "compose", "write_compare"} =>
          /\ polls <= write_calls.compare_writer
          /\ write_calls.compare_writer = raw_frame.src - 1
    /\ pc = "view" => write_calls.sr_writer = write_calls.compare_writer

C17_Witness ==
    /\ args.view
    /\ state = "DONE"
    /\ polls = MaxFrames
    /\ write_calls.compare_writer = MaxFrames

Composed == composed # NoComposition

\* C18 as stated: the top strip is the reference frame padded with (5,0,0,5)
\* followed by the transformed frame padded with (10,5,0,0).
C18_TopStripPaddingAsStated ==
    Composed =>
       /\ Len(composed.top_parts) = 2
       /\ composed.top_parts[1].of = "compare_img"
       /\ composed.top_parts[1].padding = <<5, 0, 0, 5>>
       /\ composed.top_parts[2].of = "sr"
       /\ composed.top_parts[2].padding = <<10, 5, 0, 0>>

\* C18, amended: the top strip is the reference frame padded with (0,0,5,5)
\* (5 on the right, 5 at the bottom) followed on its right by the transformed
\* frame padded with (5,0,0,5) (5 on the left, 5 at the bottom); the strip is
\* 2 x srSize.width + 10 wide and srSize.height + 5 high.
C18_TopStripPadding ==
    Composed =>
       /\ Len(composed.top_parts) = 2
       /\ composed.top_parts[1].of = "compare_img"
       /\ composed.top_parts[1].padding = <<0, 0, 5, 5>>
       /\ composed.top_parts[1].size = Image(sr_size[1] + 5, sr_size[2] + 5)
       /\ composed.top_parts[2].of = "sr"
       /\ composed.top_parts[2].padding = <<5, 0, 0, 5>>
       /\ composed.top_parts[2].size = Image(sr_size[1] + 5, sr_size[2] + 5)
       /\ composed.top = Image(2 * sr_size[1] + 10, sr_size[2] + 5)

C18_Witness ==
    /\ Composed
    /\ CropTileSize > 0
    /\ Len(CompareFrames) > 0
    /\ composed.top.w = 2 * sr_size[1] + 10

TileSide == IF CropTileSize < 0 THEN 0 ELSE CropTileSize

\* C19 as stated: the five reference tiles are cut from the padded reference
\* frame and the five transformed tiles from the padded transformed frame, each
\* of side cropTileSize, reference tiles padded by 10 on the right and
\* transformed tiles by 10 on the left.
C19_TilesCutFromPaddedFrames ==
    (Composed /\ CropTileSize > 0) =>
       /\ composed.crop_from.compare_img = composed.top_parts[1].size
       /\ composed.crop_from.sr = composed.top_parts[2].size
       /\ \A k \in 1..5 :
             /\ composed.bottom_parts[k].of = "compare_img"
             /\ composed.bottom_parts[k].padding[3] = 10
             /\ composed.bottom_parts[k].size.w = CropTileSize + 10
       /\ \A k \in 6..10 :
             /\ composed.bottom_parts[k].of = "sr"
             /\ composed.bottom_parts[k].padding[1] = 10
             /\ composed.bottom_parts[k].size.w = CropTileSize + 10

\* C19, amended: the tiles are cut from the unpadded frames of size srSize (the
\* five-region crop precedes the full-frame padding); the bottom strip is five
\* reference tiles then five transformed tiles, each of side cropTileSize
\* (empty where cropTileSize is negative), reference tiles padded by 10 on the
\* right only, transformed tiles by 10 on the left only, all by 5 on top.
C19_TilesCutFromUnpaddedFrames ==
    Composed =>
       /\ composed.crop_from.compare_img = Image(sr_size[1], sr_size[2])
       /\ composed.crop_from.sr = Image(sr_size[1], sr_size[2])
       /\ Len(composed.bottom_parts) = 10
       /\ \A k \in 1..5 :
             /\ composed.bottom_parts[k].of = "compare_img"
             /\ composed.bottom_parts[k].padding = <<0, 5, 10, 0>>
             /\ composed.bottom_parts[k].size = Image(TileSide + 10, TileSide + 5)
       /\ \A k \in 6..10 :
             /\ composed.bottom_parts[k].of = "sr"
             /\ composed.bottom_parts[k].padding = <<10, 5, 0, 0>>
             /\ composed.bottom_parts[k].size = Image(TileSide + 10, TileSide + 5)

C19_Witness ==
    /\ Composed
    /\ CropTileSize > 0
    /\ Len(CompareFrames) > 0
    /\ composed.bottom_parts[1].size = Image(CropTileSize + 10, CropTileSize + 5)
    /\ composed.crop_from.sr # composed.top_parts[2].size

\* The exact quotient bottom height x top width / bottom width, as a pair
\* (numerator, denominator).
ScaledNum == composed.bottom_unresized.h * composed.top.w
ScaledDen == composed.bottom_unresized.w

\* C20 as stated, reading "rounded" as rounded to the nearest integer: after
\* the resize the bottom strip is as wide as the top strip and its height is
\* the nearest integer to the exact quotient.
C20_BottomHeightRoundedToNearest ==
    (Composed /\ CropTileSize > 0) =>
       /\ composed.bottom.w = composed.top.w
       /\ 2 * composed.bottom.h * ScaledDen <= 2 * ScaledNum + ScaledDen
       /\ 2 * ScaledNum + ScaledDen < 2 * (composed.bottom.h + 1) * ScaledDen

\* C20, amended: after the resize the bottom strip is as wide as the top strip
\* and its height is the exact quotient truncated (rounded down) to an integer.
C20_BottomHeightTruncated ==
    Composed =>
       /\ composed.bottom.w = composed.top.w
       /\ composed.bottom.h * ScaledDen <= ScaledNum
       /\ ScaledNum < (composed.bottom.h + 1) * ScaledDen

C20_Witness ==
    /\ Composed
    /\ CropTileSize > 0
    /\ Len(CompareFrames) > 0
    /\ 2 * (ScaledNum % ScaledDen) >= ScaledDen
    /\ composed.bottom.h = ScaledNum \div ScaledDen

\* C21: source frames are consumed once and in file order, one frame in the
\* pipeline at a time: the i-th frame of either sink derives from the i-th
\* frame read, and frame i+1 is read only once frame i is in both sinks.
C21_OneFrameInThePipeline ==
    /\ \A k \in 1..Len(SrFrames) : SrFrames[k].src = k
    /\ \A k \in 1..Len(CompareFrames) : CompareFrames[k].src = k
    /\ success => raw_frame.src = video_capture.pos
    /\ \A k \in 1..(video_capture.pos - 1) :
          /\ Holds(SrFrames, k)
          /\ Holds(CompareFrames, k)

\* The steps a run can still take: the iterations of the for loop that are
\* left, each of at most seven steps, and the steps left in the current one.
StepsLeft ==
    IF Terminal THEN 0
    ELSE 8 * (source.frame_count - i)
         + CASE pc = "__init__" -> 3
             [] pc = "read_first" -> 2
             [] pc = "for" -> 1
             [] pc = "transform" -> 8
             [] pc = "write_sr" -> 7
             [] pc = "compose" -> 6
             [] pc = "write_compare" -> 5
             [] pc = "view" -> 4
             [] pc = "read_next" -> 3

\* C22: a run terminates after at most frameCount iterations of the loop
\* (every step brings the end nearer and the loop counter never passes the
\* reported count); a run that returns without cancellation, exception or
\* discarded write has written min(frameCount, frames the source yields) frames
\* to each sink, and has read at most one frame more than it has written.
C22_TerminatesWithinFrameCount ==
    /\ [][StepsLeft' < StepsLeft]_vars
    /\ [](i <= source.frame_count /\ StepsLeft >= 0)
    /\ []((state = "DONE" /\ dropped = 0) =>
             /\ Len(SrFrames) = FramesToProcess
             /\ Len(CompareFrames) = FramesToProcess
             /\ video_capture.pos - FramesToProcess \in {0, 1}
             /\ \A k \in 1..FramesToProcess :
                   Holds(SrFrames, k) /\ Holds(CompareFrames, k))

C22_Witness ==
    /\ state = "DONE"
    /\ dropped = 0
    /\ source.frame_count < source.frames
    /\ source.frame_count > 0
    /\ Len(SrFrames) = source.frame_count
    /\ Len(CompareFrames) = source.frame_count
    /\ video_capture.pos = source.frame_count + 1

\* C23: in every reachable state the upscaled sink holds as many frames as
\* the comparison sink or one more, and in every terminal state (DONE,
\* CANCELLED, or FAILED after an error of the transform, the compositor or a
\* sink write) the two sinks hold the same number of frames.
C23_SinksDifferByAtMostOneFrame ==
    /\ Len(SrFrames) - Len(CompareFrames) \in {0, 1}
    /\ Terminal => Len(SrFrames) = Len(CompareFrames)

\* C24: for every geometry with cropTileSize > 0 the five tiles, of side
\* cropTileSize = srSize.width div 5 - 9, lie inside the srSize frame they are
\* cut from: cropTileSize <= srSize.width and cropTileSize <= srSize.height, and
\* the five-region crop of the transformed frame does not fail.
C24_TilesLieInsideTheFrame ==
    (state # "INIT" /\ CropTileSize > 0) =>
       /\ CropTileSize = FiveCropSize(sr_size[1])
       /\ CropTileSize <= sr_size[1]
       /\ CropTileSize <= sr_size[2]
       /\ (sr # NoFrame /\ model_scale = args.upscale_factor) =>
             \A lib \in {"raise", "empty"} :
                ~FiveCropRaises(sr, FiveCropSize(sr.w), lib)

\* C25: for every srSize.width with cropTileSize > 0 the unresized bottom
\* strip is 10 x (cropTileSize + 10) wide and cropTileSize + 5 high, and the
\* truncating int(topWidth / bottomWidth x bottomHeight) is exactly
\* cropTileSize + 5, whether or not srSize.width is a multiple of 5, so that the
\* stacked frame is srSize.height + 10 + cropTileSize high, the height of
\* compareSize.
C25_BottomStripKeepsItsHeight ==
    (Composed /\ CropTileSize > 0) =>
       /\ composed.bottom_unresized = Image(10 * (CropTileSize + 10), CropTileSize + 5)
       /\ BottomImgHeight(composed.top, composed.bottom_unresized) = CropTileSize + 5
       /\ composed.bottom.h = CropTileSize + 5
       /\ final_image.h = sr_size[2] + 10 + CropTileSize
       /\ final_image.h = pare_size[2]

C25_Witness ==
    /\ Composed
    /\ CropTileSize > 0
    /\ sr_size[1] % 5 = 4
    /\ composed.bottom_unresized.h = composed.bottom.h
    /\ Len(CompareFrames) > 0
    /\ CompareFrames[1].h = sr_size[2] + 10 + CropTileSize

====
